---- MODULE Spec2Model ----
(***************************************************************************)
(* microbeLLM prediction pipeline: predict_binomial_name (predict.py), the *)
(* Model Client, Response Parser and Result Writer (utils.py).             *)
(*                                                                         *)
(* Strings are sequences of one-character strings (names) or of tokens     *)
(* (templates, messages, model responses).  A Python dict is a sequence of *)
(* [key, val] records in insertion order.  A Python value is a record      *)
(* [int |-> n], [str |-> chars] or [obj |-> tokens].                       *)
(***************************************************************************)
EXTENDS Integers, Sequences, FiniteSets, TLC

(***************************************************************************)
(* Bounds of the model.                                                    *)
(***************************************************************************)
MaxNameLen == 5
MaxTextLen == 5
NumWriters == 2
MaxWrites == 3
NumTasks == 2

(***************************************************************************)
(* Generic helpers.                                                        *)
(***************************************************************************)
SeqsUpTo(S, n) == UNION {[1..k -> S] : k \in 0..n}

RECURSIVE Flatten(_)
Flatten(ss) == IF ss = <<>> THEN <<>> ELSE Head(ss) \o Flatten(Tail(ss))

\* dict[key] = val : a new key goes last, an existing key keeps its place
DictSet(d, k, v) ==
    IF \E i \in 1..Len(d) : d[i].key = k
    THEN [i \in 1..Len(d) |-> IF d[i].key = k THEN [key |-> k, val |-> v] ELSE d[i]]
    ELSE Append(d, [key |-> k, val |-> v])

RECURSIVE DictUpdate(_, _)
DictUpdate(d, e) ==
    IF e = <<>> THEN d
    ELSE DictUpdate(DictSet(d, Head(e).key, Head(e).val), Tail(e))

DictKeys(d) == [i \in 1..Len(d) |-> d[i].key]
DictHas(d, k) == \E i \in 1..Len(d) : d[i].key = k
DictGet(d, k, default) ==
    IF DictHas(d, k)
    THEN d[CHOOSE i \in 1..Len(d) : d[i].key = k].val
    ELSE default

(***************************************************************************)
(* str.split() and str.replace(' ', '_') on binomial names.                *)
(***************************************************************************)
NameChars == {"a", " ", "\t"}
Whitespace == {" ", "\t"}
Names == SeqsUpTo(NameChars, MaxNameLen)

\* binomial_name.split(): the maximal runs of non-whitespace characters
RECURSIVE SplitFrom(_, _, _, _)
SplitFrom(s, i, cur, acc) ==
    IF i > Len(s) THEN (IF cur = <<>> THEN acc ELSE Append(acc, cur))
    ELSE IF s[i] \in Whitespace
         THEN SplitFrom(s, i + 1, <<>>, IF cur = <<>> THEN acc ELSE Append(acc, cur))
         ELSE SplitFrom(s, i + 1, Append(cur, s[i]), acc)
Split(s) == SplitFrom(s, 1, <<>>, <<>>)

ReplaceChar(s, old, new) == [i \in 1..Len(s) |-> IF s[i] = old THEN new ELSE s[i]]

(***************************************************************************)
(* Response Parser: extract_and_validate_json.                             *)
(* A response text is a sequence of tokens: "{" and "}", a prose token     *)
(* "x" (text that is no JSON), and member tokens, each a complete          *)
(* "key": value pair.  A "{" inside an object opens the object value of    *)
(* the member "details".                                                   *)
(***************************************************************************)
MemberToks == {"gram", "motil", "ngenes", "bname"}
TextToks == {"{", "}", "x", "gram"}

MemberKey(m) ==
    CASE m = "gram" -> "gram_staining"
      [] m = "motil" -> "motility"
      [] m = "ngenes" -> "num_genes"
      [] m = "bname" -> "Binomial name"

MemberVal(m) ==
    CASE m = "gram" -> [str |-> <<"positive">>]
      [] m = "motil" -> [str |-> <<"motile">>]
      [] m = "ngenes" -> [int |-> 99]
      [] m = "bname" -> [str |-> <<"b", " ", "b">>]

\* the index after the "}" closing the object whose items start at i; 0 if malformed
RECURSIVE ItemsEnd(_, _)
ItemsEnd(s, i) ==
    IF i > Len(s) THEN 0
    ELSE IF s[i] = "}" THEN i + 1
    ELSE IF s[i] \in MemberToks THEN ItemsEnd(s, i + 1)
    ELSE IF s[i] = "{"
         THEN LET j == ItemsEnd(s, i + 1) IN IF j = 0 THEN 0 ELSE ItemsEnd(s, j)
         ELSE 0

\* json.loads accepts s: one object and nothing after it
IsJsonObject(s) == Len(s) >= 2 /\ s[1] = "{" /\ ItemsEnd(s, 2) = Len(s) + 1

RECURSIVE DecodeItems(_, _, _)
DecodeItems(s, i, acc) ==
    IF s[i] = "}" THEN acc
    ELSE IF s[i] \in MemberToks
         THEN DecodeItems(s, i + 1, DictSet(acc, MemberKey(s[i]), MemberVal(s[i])))
         ELSE LET j == ItemsEnd(s, i + 1)
              IN DecodeItems(s, j, DictSet(acc, "details", [obj |-> SubSeq(s, i, j - 1)]))

\* json.loads(s) of an accepted s
JsonLoads(s) == DecodeItems(s, 2, <<>>)

\* re.search(r'\{.*\}', data, re.DOTALL): leftmost "{" with a "}" after it, up to the last "}"
Lefts(t) == {i \in 1..Len(t) : t[i] = "{"}
Rights(t) == {i \in 1..Len(t) : t[i] = "}"}
Max(S) == CHOOSE m \in S : \A n \in S : n <= m
Min(S) == CHOOSE m \in S : \A n \in S : m <= n
HasMatch(t) == \E i \in Lefts(t) : \E j \in Rights(t) : i < j
MatchStart(t) == Min({i \in Lefts(t) : \E j \in Rights(t) : i < j})
MatchEndLazy(t) == Min({j \in Rights(t) : j > MatchStart(t)})
MatchEnd(t) == Max(Rights(t))
MatchGroup(t) == SubSeq(t, MatchStart(t), MatchEnd(t))

NoneResponse == [kind |-> "none", text |-> <<>>, dict |-> <<>>]
TextResponse(t) == [kind |-> "text", text |-> t, dict |-> <<>>]
DictResponse(d) == [kind |-> "dict", text |-> <<>>, dict |-> d]

ParsedNone == [kind |-> "none", dict |-> <<>>]
ParsedDict(d) == [kind |-> "dict", dict |-> d]
ParsedRaise == [kind |-> "raise", dict |-> <<>>]
NotParsed == [kind |-> "pending", dict |-> <<>>]

\* extract_and_validate_json(data); "raise" is the TypeError of re.search on a non-string
extract_and_validate_json(data) ==
    IF data.kind = "dict" THEN ParsedDict(data.dict)
    ELSE IF data.kind = "none" THEN ParsedRaise
    ELSE IF ~HasMatch(data.text) THEN ParsedNone
    ELSE IF IsJsonObject(MatchGroup(data.text)) THEN ParsedDict(JsonLoads(MatchGroup(data.text)))
    ELSE ParsedNone

(***************************************************************************)
(* Template Renderer and request construction (predict.py:38-51).          *)
(***************************************************************************)
NoGenes == [given |-> FALSE, list |-> <<>>]
GeneLists ==
    {NoGenes} \cup {[given |-> TRUE, list |-> l] : l \in {<<>>, <<"g1">>, <<"g1", "g2">>}}
Hosts == {"openrouter", "openai", "other"}
Model == "openai/chatgpt-4o-latest"
SystemTemplate == <<"You are an expert.">>
UserTemplate == <<"Describe ", "{binomial_name}", " genes: ", "{gene_list}">>
SystemTemplatePath == "templates/system/template1.txt"

Requests ==
    [name : Names, genes : GeneLists, host : Hosts, batch : BOOLEAN]

\* template.replace(placeholder, text)
Replace(tpl, placeholder, text) ==
    Flatten([i \in 1..Len(tpl) |-> IF tpl[i] = placeholder THEN text ELSE <<tpl[i]>>])

\* ', '.join(gene_list)
RECURSIVE Join(_)
Join(l) ==
    IF l = <<>> THEN <<>>
    ELSE IF Len(l) = 1 THEN <<l[1]>>
    ELSE <<l[1], ", ">> \o Join(Tail(l))

\* `if gene_list:` is false for None and for the empty list
Truthy(genes) == genes.given /\ genes.list # <<>>

UserMessage(r) ==
    LET named == Replace(UserTemplate, "{binomial_name}", r.name)
    IN IF Truthy(r.genes) THEN Replace(named, "{gene_list}", Join(r.genes.list)) ELSE named

Messages(r) ==
    << [role |-> "system", content |-> SystemTemplate],
       [role |-> "user", content |-> UserMessage(r)] >>

CustomIdRaw(r) == <<"request-">> \o r.name
CustomId(r) == <<"request-">> \o ReplaceChar(r.name, " ", "_")

NumGenes(genes) == IF Truthy(genes) THEN Len(genes.list) ELSE 0

ValidNameAtLeastTwo(name) == Len(Split(name)) >= 2
ValidName(name) == Len(Split(name)) = 2

\* {'Binomial name': binomial_name, 'num_genes': num_genes}
Injected(r) ==
    << [key |-> "Binomial name", val |-> [str |-> r.name]],
       [key |-> "num_genes", val |-> [int |-> NumGenes(r.genes)]] >>

\* {'Binomial name': binomial_name, 'num_genes': num_genes, **valid_json}
Prediction(r, valid_json) == DictUpdate(Injected(r), valid_json)

(***************************************************************************)
(* Result Writer.  The output file is a flag (does it exist) and the lines *)
(* appended so far.                                                        *)
(***************************************************************************)
MetaColumns == <<"Model Used", "Query Template", "Date">>

ShouldWriteHeaderAlways(f) == TRUE

\* write_header = False; if not os.path.exists(output_file): write_header = True
ShouldWriteHeader(f) == ~f.exists

\* headers = list(prediction.keys()) + ['Model Used', 'Query Template', 'Date']
Headers(prediction) == DictKeys(prediction) \o MetaColumns

AllButLast3(h) == SubSeq(h, 1, Len(h) - 3)

NA == [str |-> <<"N/A">>]

\* row = [prediction.get(header, 'N/A') for header in headers[:-3]] + [model_used, template_path, current_date]
Row(prediction, model_used, template_path) ==
    LET cols == AllButLast3(Headers(prediction))
    IN [i \in 1..Len(cols) |-> DictGet(prediction, cols[i], NA)]
         \o << [str |-> <<model_used>>], [str |-> <<template_path>>], [str |-> <<"now">>] >>

HeaderLine(prediction) ==
    [kind |-> "header", cols |-> Headers(prediction), cells |-> <<>>]
RowLine(prediction, model_used, template_path) ==
    [kind |-> "row", cols |-> <<>>, cells |-> Row(prediction, model_used, template_path)]

BufferedRowFirst(write_header, prediction, model_used, template_path) ==
    <<RowLine(prediction, model_used, template_path)>>
        \o (IF write_header THEN <<HeaderLine(prediction)>> ELSE <<>>)

\* what the csv writer has buffered when the file is closed
Buffered(write_header, prediction, model_used, template_path) ==
    (IF write_header THEN <<HeaderLine(prediction)>> ELSE <<>>)
        \o <<RowLine(prediction, model_used, template_path)>>

\* write_batch_jsonl(output_file, messages, model, custom_id): one JSON line appended
BatchLine(messages, model, custom_id) ==
    [kind |-> "batch", custom_id |-> custom_id, method |-> "POST",
     url |-> "/v1/chat/completions", model |-> model, messages |-> messages]

write_batch_jsonl(f, messages, model, custom_id) ==
    [exists |-> TRUE, lines |-> Append(f.lines, BatchLine(messages, model, custom_id))]

(***************************************************************************)
(* Model Client: what one call of the remote API can do.  An outcome is    *)
(* the text of the first choice, or a failure of the transport or the API. *)
(* The two client functions are modelled by their bodies.  predict.py      *)
(* passes them verbose=verbose, which the signatures in utils.py do not    *)
(* declare; the model takes every call to reach the function's body.       *)
(***************************************************************************)
MaxRetries == 4

ClientTexts ==
    { <<"x">>,
      <<"x", "{", "gram", "motil", "}">>,
      <<"{", "bname", "ngenes", "gram", "}">>,
      <<"{", "gram", "}", "x", "}">>,
      <<"{", "}">> }

ApiOutcomes == {[ok |-> TRUE, text |-> t] : t \in ClientTexts} \cup {[ok |-> FALSE, text |-> <<>>]}

\* query_openrouter_api: `except Exception: return None`
query_openrouter_api(outcome) ==
    IF outcome.ok THEN TextResponse(outcome.text) ELSE NoneResponse

query_openai_api_caught(outcome) ==
    IF outcome.ok THEN [raised |-> FALSE, value |-> TextResponse(outcome.text)]
    ELSE [raised |-> FALSE, value |-> NoneResponse]

\* query_openai_api: no try/except, the exception leaves the function
query_openai_api(outcome) ==
    IF outcome.ok THEN [raised |-> FALSE, value |-> TextResponse(outcome.text)]
    ELSE [raised |-> TRUE, value |-> NoneResponse]

Pending == [kind |-> "pending", rec |-> <<>>, exc |-> ""]
Null == [kind |-> "null", rec |-> <<>>, exc |-> ""]
ReturnedNothing(d) == Null
Returned(d) == [kind |-> "record", rec |-> d, exc |-> ""]
Raised(e) == [kind |-> "raised", rec |-> <<>>, exc |-> e]

LoopCondInclusive(n) == n <= MaxRetries
LoopCond(n) == n < MaxRetries

HostBranchDefault(h) == IF h = "openai" THEN "openai" ELSE "openrouter"
HostBranchElseOpenAI(h) == IF h = "openrouter" THEN "openrouter" ELSE "openai"

\* the if / elif / else on model_host
HostBranch(h) ==
    IF h = "openrouter" THEN "openrouter"
    ELSE IF h = "openai" THEN "openai"
    ELSE "invalid"

Workers == 1..NumWriters
MainThread == 1

VARIABLES data, parsed,
          file,            \* the output file: [exists, lines]
          pc,              \* per thread: where it is in predict_binomial_name / write_prediction
          req,             \* per thread: the arguments of its call
          retry_count, response_json, prediction, write_header,
          result,          \* per thread: what its call returned or raised
          calls,           \* per thread: Model Client invocations of its call
          allUnparsable,   \* per thread: every response of its call was text without JSON
          file0,           \* the output file when the run started
          nwrites,         \* write_prediction calls started by the writer threads
          overlapped,      \* two write_prediction executions ran at the same time
          log,             \* the records written, in the order their files were closed
          pbar,            \* per thread: its call was given a progress sink
          progress,        \* the calls of update(1) on the progress sink
          pool,            \* the executor and the thread that drives it
          responses,       \* the client outcomes of the first call of a pair, in order
          file1            \* the output file as the first call of a pair left it

pvars == <<data, parsed>>
tvars == <<pc, req, retry_count, response_json, prediction, write_header, result,
           calls, allUnparsable, pbar>>
vars == <<data, parsed, file, file0, tvars, nwrites, overlapped, log, progress, pool,
          responses, file1>>

NoRequest == [name |-> <<>>, genes |-> NoGenes, host |-> "openrouter", batch |-> FALSE]
NoFile == [exists |-> FALSE, lines |-> <<>>]
NoPool ==
    [main |-> "off", threads |-> 0, tasks |-> <<>>, queue |-> <<>>, fut |-> <<>>,
     running |-> [w \in Workers |-> 0], seen |-> {}]

InitThreads ==
    /\ pc = [w \in Workers |-> "idle"]
    /\ req = [w \in Workers |-> NoRequest]
    /\ retry_count = [w \in Workers |-> 0]
    /\ response_json = [w \in Workers |-> NoneResponse]
    /\ prediction = [w \in Workers |-> <<>>]
    /\ write_header = [w \in Workers |-> FALSE]
    /\ result = [w \in Workers |-> Pending]
    /\ calls = [w \in Workers |-> 0]
    /\ allUnparsable = [w \in Workers |-> TRUE]
    /\ nwrites = 0
    /\ overlapped = FALSE
    /\ log = <<>>
    /\ pbar = [w \in Workers |-> FALSE]
    /\ progress = 0
    /\ responses = <<>>
    /\ file1 = NoFile


(***************************************************************************)
(* predict_binomial_name, one action per step of thread w.                 *)
(***************************************************************************)
Set(f, w, v) == [f EXCEPT ![w] = v]

\* predict.py:34-50 : validation, rendering, and the choice of the mode, in a
\* call with the arguments r, given a progress sink or not
Enter(w, r, sink) ==
    /\ req' = Set(req, w, r)
    /\ pbar' = Set(pbar, w, sink)
    /\ IF ~ValidName(r.name)
       THEN pc' = Set(pc, w, "done") /\ result' = Set(result, w, Null)
       ELSE /\ pc' = Set(pc, w, IF r.batch THEN "batch" ELSE "loop")
            /\ result' = Set(result, w, Pending)
    /\ retry_count' = Set(retry_count, w, 0)
    /\ calls' = Set(calls, w, 0)
    /\ allUnparsable' = Set(allUnparsable, w, TRUE)

\* `if pbar: pbar.update(1)`
Progressed(w) == IF pbar[w] THEN progress + 1 ELSE progress

ResultInSinkBranch(sink, rec) == IF sink THEN Returned(rec) ELSE Null

\* predict.py:80-83 : `return [prediction]` follows the update of the sink,
\* outside its `if`
ResultAfterWrite(sink, rec) == Returned(rec)

\* the call of the sequential drivers, which pass no progress sink
Predict(w) ==
    /\ pc[w] = "idle"
    /\ \E r \in Requests : Enter(w, r, FALSE)
    /\ UNCHANGED <<data, parsed, file, file0, response_json, prediction, write_header,
                   nwrites, overlapped, log, progress, pool, responses, file1>>

\* predict.py:51-55 : the batch line is written and the injected fields are returned
WriteBatch(w) ==
    /\ pc[w] = "batch"
    /\ file' = write_batch_jsonl(file, Messages(req[w]), Model, CustomId(req[w]))
    /\ progress' = Progressed(w)
    /\ result' = Set(result, w, Returned(Injected(req[w])))
    /\ pc' = Set(pc, w, "done")
    /\ UNCHANGED <<data, parsed, file0, req, retry_count, response_json, prediction,
                   write_header, calls, allUnparsable, nwrites, overlapped, log, pbar,
                   pool, responses, file1>>

NoteResponse(w, resp) ==
    /\ calls' = Set(calls, w, calls[w] + 1)
    /\ allUnparsable' = Set(allUnparsable, w,
           /\ allUnparsable[w]
           /\ resp.kind = "text"
           /\ extract_and_validate_json(resp) = ParsedNone)

\* predict.py:58-60 : one call of the OpenRouter client, with the given outcome
OpenRouterCall(w, outcome) ==
    /\ pc[w] = "loop"
    /\ LoopCond(retry_count[w])
    /\ HostBranch(req[w].host) = "openrouter"
    /\ response_json' = Set(response_json, w, query_openrouter_api(outcome))
    /\ NoteResponse(w, query_openrouter_api(outcome))
    /\ pc' = Set(pc, w, "parse")
    /\ UNCHANGED <<data, parsed, file, file0, req, retry_count, prediction,
                   write_header, result, nwrites, overlapped, log, pbar, progress,
                   pool, file1>>

\* predict.py:61-62 : one call of the OpenAI client, with the given outcome;
\* its exception leaves predict
OpenAICall(w, outcome) ==
    /\ pc[w] = "loop"
    /\ LoopCond(retry_count[w])
    /\ HostBranch(req[w].host) = "openai"
    /\ LET r == query_openai_api(outcome)
       IN /\ NoteResponse(w, r.value)
          /\ IF r.raised
             THEN /\ pc' = Set(pc, w, "done")
                  /\ result' = Set(result, w, Raised("APIError"))
                  /\ UNCHANGED response_json
             ELSE /\ pc' = Set(pc, w, "parse")
                  /\ response_json' = Set(response_json, w, r.value)
                  /\ UNCHANGED result
    /\ UNCHANGED <<data, parsed, file, file0, req, retry_count, prediction,
                   write_header, nwrites, overlapped, log, pbar, progress, pool, file1>>

\* the client answers with any of the outcomes
QueryOpenRouter(w) ==
    /\ \E outcome \in ApiOutcomes : OpenRouterCall(w, outcome)
    /\ UNCHANGED responses

QueryOpenAI(w) ==
    /\ \E outcome \in ApiOutcomes : OpenAICall(w, outcome)
    /\ UNCHANGED responses

\* predict.py:63-64 : raise ValueError(f"Invalid model_host: {model_host}")
InvalidHost(w) ==
    /\ pc[w] = "loop"
    /\ LoopCond(retry_count[w])
    /\ HostBranch(req[w].host) = "invalid"
    /\ pc' = Set(pc, w, "done")
    /\ result' = Set(result, w, Raised("ValueError"))
    /\ UNCHANGED <<data, parsed, file, file0, req, retry_count, response_json,
                   prediction, write_header, calls, allUnparsable, nwrites, overlapped,
                   log, pbar, progress, pool, responses, file1>>

\* predict.py:66-70, 84-86 : the response is parsed; a record is built or the attempt counted
Parse(w) ==
    /\ pc[w] = "parse"
    /\ LET valid_json == extract_and_validate_json(response_json[w])
       IN CASE valid_json.kind = "raise" ->
                 /\ pc' = Set(pc, w, "done")
                 /\ result' = Set(result, w, Raised("TypeError"))
                 /\ UNCHANGED <<prediction, retry_count>>
            [] valid_json.kind = "dict" ->
                 /\ prediction' = Set(prediction, w, Prediction(req[w], valid_json.dict))
                 /\ pc' = Set(pc, w, "wp_check")
                 /\ UNCHANGED <<result, retry_count>>
            [] valid_json.kind = "none" ->
                 /\ retry_count' = Set(retry_count, w, retry_count[w] + 1)
                 /\ pc' = Set(pc, w, "loop")
                 /\ UNCHANGED <<result, prediction>>
    /\ UNCHANGED <<data, parsed, file, file0, req, response_json, write_header, calls,
                   allUnparsable, nwrites, overlapped, log, pbar, progress, pool,
                   responses, file1>>

\* predict.py:58, 88-91 : the loop ends without a record
Exhausted(w) ==
    /\ pc[w] = "loop"
    /\ ~LoopCond(retry_count[w])
    /\ progress' = Progressed(w)
    /\ pc' = Set(pc, w, "done")
    /\ result' = Set(result, w, Null)
    /\ UNCHANGED <<data, parsed, file, file0, req, retry_count, response_json,
                   prediction, write_header, calls, allUnparsable, nwrites, overlapped,
                   log, pbar, pool, responses, file1>>

(***************************************************************************)
(* write_prediction, one action per step that other threads can observe.   *)
(***************************************************************************)
InWrite(w) == pc[w] \in {"wp_open", "wp_close"}

\* utils.py:136-138 : write_header = not os.path.exists(output_file)
WpCheck(w) ==
    /\ pc[w] = "wp_check"
    /\ write_header' = Set(write_header, w, ShouldWriteHeader(file))
    /\ overlapped' = (overlapped \/ \E o \in Workers \ {w} : InWrite(o))
    /\ pc' = Set(pc, w, "wp_open")
    /\ UNCHANGED <<data, parsed, file, file0, req, retry_count, response_json,
                   prediction, result, calls, allUnparsable, nwrites, log, pbar,
                   progress, pool, responses, file1>>

\* utils.py:140 : open(output_file, mode='a') creates a missing file
WpOpen(w) ==
    /\ pc[w] = "wp_open"
    /\ file' = [file EXCEPT !.exists = TRUE]
    /\ pc' = Set(pc, w, "wp_close")
    /\ UNCHANGED <<data, parsed, file0, req, retry_count, response_json, prediction,
                   write_header, result, calls, allUnparsable, nwrites, overlapped,
                   log, pbar, progress, pool, responses, file1>>

\* utils.py:141-156 : the rows are buffered, and reach the file when the with block closes it
WpClose(w) ==
    /\ pc[w] = "wp_close"
    /\ file' = [file EXCEPT !.lines =
                   @ \o Buffered(write_header[w], prediction[w], Model, SystemTemplatePath)]
    /\ log' = Append(log, prediction[w])
    /\ pc' = Set(pc, w, "wp_ret")
    /\ UNCHANGED <<data, parsed, file0, req, retry_count, response_json, prediction,
                   write_header, result, calls, allUnparsable, nwrites, overlapped,
                   pbar, progress, pool, responses, file1>>

\* predict.py:71-83 : write_prediction has returned; return [prediction]
ReturnPrediction(w) ==
    /\ pc[w] = "wp_ret"
    /\ progress' = Progressed(w)
    /\ result' = Set(result, w, ResultAfterWrite(pbar[w], prediction[w]))
    /\ pc' = Set(pc, w, "done")
    /\ UNCHANGED <<data, parsed, file, file0, req, retry_count, response_json,
                   prediction, write_header, calls, allUnparsable, nwrites, overlapped,
                   log, pbar, pool, responses, file1>>

(***************************************************************************)
(* The sequential driver: one predict_binomial_name call after another     *)
(* (predict.py:112-119, microbellm.py:155-156).                            *)
(***************************************************************************)
\* the output file before the call: missing, empty, or left by an earlier run
EarlierRecord == Prediction([NoRequest EXCEPT !.name = <<"a", " ", "a">>], JsonLoads(<<"{", "gram", "}">>))
EmptyFile == [exists |-> TRUE, lines |-> <<>>]
EarlierFile ==
    [exists |-> TRUE, lines |-> Buffered(TRUE, EarlierRecord, Model, SystemTemplatePath)]
InitFiles == {NoFile, EmptyFile, EarlierFile}

Init ==
    /\ InitThreads
    /\ file \in InitFiles
    /\ file0 = file
    /\ pool = NoPool
    /\ data = NoneResponse
    /\ parsed = NotParsed

Next ==
    \/ Predict(MainThread)
    \/ WriteBatch(MainThread)
    \/ QueryOpenRouter(MainThread)
    \/ QueryOpenAI(MainThread)
    \/ InvalidHost(MainThread)
    \/ Parse(MainThread)
    \/ Exhausted(MainThread)
    \/ WpCheck(MainThread)
    \/ WpOpen(MainThread)
    \/ WpClose(MainThread)
    \/ ReturnPrediction(MainThread)

Spec == Init /\ [][Next]_vars

(***************************************************************************)
(* Threads that call write_prediction on one output file, as the pool of   *)
(* microbellm.py:107-134 does through predict_binomial_name.               *)
(***************************************************************************)
WriterRecords ==
    {Prediction([NoRequest EXCEPT !.name = <<"a", " ", "a">>], JsonLoads(t)) :
        t \in {<<"{", "gram", "}">>, <<"{", "motil", "}">>, <<"{", "motil", "gram", "}">>}}

WriterCall(w) ==
    /\ pc[w] = "idle"
    /\ nwrites < MaxWrites
    /\ nwrites' = nwrites + 1
    /\ \E rec \in WriterRecords : prediction' = Set(prediction, w, rec)
    /\ pc' = Set(pc, w, "wp_check")
    /\ UNCHANGED <<data, parsed, file, file0, req, retry_count, response_json,
                   write_header, result, calls, allUnparsable, overlapped, log, pbar,
                   progress, pool, responses, file1>>

WriterReturn(w) ==
    /\ pc[w] = "wp_ret"
    /\ pc' = Set(pc, w, "idle")
    /\ UNCHANGED <<data, parsed, file, file0, req, retry_count, response_json,
                   prediction, write_header, result, calls, allUnparsable, nwrites,
                   overlapped, log, pbar, progress, pool, responses, file1>>

InitWriter ==
    /\ InitThreads
    /\ file \in {NoFile, EmptyFile}
    /\ file0 = file
    /\ pool = NoPool
    /\ data = NoneResponse
    /\ parsed = NotParsed

NextWriter ==
    \E w \in Workers :
        \/ WriterCall(w)
        \/ WpCheck(w)
        \/ WpOpen(w)
        \/ WpClose(w)
        \/ WriterReturn(w)

SpecWriter == InitWriter /\ [][NextWriter]_vars

(***************************************************************************)
(* The batch run over the worker pool (microbellm.py:107-134): the main    *)
(* thread submits one predict_binomial_name call per name, the threads of  *)
(* the executor take the calls in the order of their submission, and the   *)
(* main thread then asks every finished future for its result.             *)
(***************************************************************************)
PoolNames == {<<"a", " ", "a">>, <<"a">>}
PoolThreads == {1, 2}

\* one run: --threads, --model_host (openrouter or openai, by its choices),
\* --batchoutput, and the names of the input file
PoolRuns ==
    {[NoPool EXCEPT !.main = "submit", !.threads = n,
                    !.tasks = [t \in 1..NumTasks |->
                                  [name |-> names[t], genes |-> NoGenes,
                                   host |-> h, batch |-> b]]] :
        n \in PoolThreads, h \in {"openrouter", "openai"}, b \in BOOLEAN,
        names \in [1..NumTasks -> PoolNames]}

Submitted == Len(pool.fut)
Terminal(t) == t <= Submitted /\ pool.fut[t].kind # "pending"

\* microbellm.py:129-130 : executor.submit(...); futures.append(future)
PoolSubmit ==
    /\ pool.main = "submit"
    /\ pool' = [pool EXCEPT
                   !.fut = Append(@, Pending),
                   !.queue = Append(@, Submitted + 1),
                   !.main = IF Submitted + 1 = Len(pool.tasks) THEN "wait" ELSE "submit"]
    /\ UNCHANGED <<data, parsed, file, file0, tvars, nwrites, overlapped, log, progress,
                   responses, file1>>

\* the answers of the client in a pool run: text without JSON, the empty
\* object, or a failure
PoolOutcomes ==
    {[ok |-> TRUE, text |-> <<"x">>], [ok |-> TRUE, text |-> <<"{", "}">>],
     [ok |-> FALSE, text |-> <<>>]}

PoolQueryOpenRouter(w) ==
    /\ \E outcome \in PoolOutcomes : OpenRouterCall(w, outcome)
    /\ UNCHANGED responses

PoolQueryOpenAI(w) ==
    /\ \E outcome \in PoolOutcomes : OpenAICall(w, outcome)
    /\ UNCHANGED responses

\* a free thread of the executor takes the oldest call of the queue
PoolTake(w) ==
    /\ w \in 1..pool.threads
    /\ pc[w] = "idle"
    /\ pool.queue # <<>>
    /\ pool' = [pool EXCEPT !.queue = Tail(@), !.running[w] = Head(pool.queue)]
    /\ Enter(w, pool.tasks[Head(pool.queue)], TRUE)
    /\ UNCHANGED <<data, parsed, file, file0, response_json, prediction, write_header,
                   nwrites, overlapped, log, progress, responses, file1>>

\* the call is over: its return value or its exception is kept in its future,
\* and the thread is free again
PoolFinish(w) ==
    /\ pc[w] = "done"
    /\ pool.running[w] # 0
    /\ pool' = [pool EXCEPT !.fut[pool.running[w]] = result[w], !.running[w] = 0]
    /\ pc' = Set(pc, w, "idle")
    /\ req' = Set(req, w, NoRequest)
    /\ retry_count' = Set(retry_count, w, 0)
    /\ response_json' = Set(response_json, w, NoneResponse)
    /\ prediction' = Set(prediction, w, <<>>)
    /\ write_header' = Set(write_header, w, FALSE)
    /\ result' = Set(result, w, Pending)
    /\ calls' = Set(calls, w, 0)
    /\ allUnparsable' = Set(allUnparsable, w, TRUE)
    /\ pbar' = Set(pbar, w, FALSE)
    /\ UNCHANGED <<data, parsed, file, file0, nwrites, overlapped, log, progress,
                   responses, file1>>

QueueCancelled(q) == <<>>

\* microbellm.py:107 : the with block of the executor ends in
\* shutdown(wait=True), which cancels no call that is still queued
QueueAtShutdown(q) == q

\* microbellm.py:133-134 : as_completed yields a finished future and
\* future.result() returns, or raises what the call raised; the exception
\* leaves the loop and the with blocks
AsCompleted ==
    /\ pool.main = "wait"
    /\ \E t \in 1..Submitted :
          /\ t \notin pool.seen
          /\ Terminal(t)
          /\ pool' = [pool EXCEPT
                         !.seen = @ \cup {t},
                         !.main = IF pool.fut[t].kind = "raised" THEN "unwind"
                                  ELSE IF pool.seen \cup {t} = 1..Submitted THEN "leave"
                                  ELSE "wait",
                         !.queue = IF pool.fut[t].kind = "raised"
                                   THEN QueueAtShutdown(@) ELSE @]
    /\ UNCHANGED <<data, parsed, file, file0, tvars, nwrites, overlapped, log, progress,
                   responses, file1>>

\* the with block of the executor is left once its threads have run every
\* call that was queued; an exception on its way goes on to the caller
Shutdown ==
    /\ pool.main \in {"unwind", "leave"}
    /\ pool.queue = <<>>
    /\ \A w \in Workers : pool.running[w] = 0
    /\ pool' = [pool EXCEPT !.main = IF pool.main = "unwind" THEN "raised" ELSE "finished"]
    /\ UNCHANGED <<data, parsed, file, file0, tvars, nwrites, overlapped, log, progress,
                   responses, file1>>

InitPool ==
    /\ InitThreads
    /\ file = NoFile
    /\ file0 = file
    /\ pool \in PoolRuns
    /\ data = NoneResponse
    /\ parsed = NotParsed

NextPool ==
    \/ PoolSubmit
    \/ AsCompleted
    \/ Shutdown
    \/ \E w \in Workers :
          \/ PoolTake(w)
          \/ WriteBatch(w)
          \/ PoolQueryOpenRouter(w)
          \/ PoolQueryOpenAI(w)
          \/ Parse(w)
          \/ Exhausted(w)
          \/ WpCheck(w)
          \/ WpOpen(w)
          \/ WpClose(w)
          \/ ReturnPrediction(w)
          \/ PoolFinish(w)

SpecPool == InitPool /\ [][NextPool]_vars

\* the run does not halt while one of its threads can take a step (the
\* scheduler of the operating system runs a runnable thread, and every client
\* call answers or fails)
SpecPoolFair == SpecPool /\ WF_vars(NextPool)

(***************************************************************************)
(* Two calls with the same arguments on the same file, the first with a    *)
(* progress sink (microbellm.py:129) and the second without (predict.py:   *)
(* 117-119), the client answering the second as it answered the first.     *)
(***************************************************************************)
WithSink == 1
WithoutSink == 2

PairRequests ==
    {[name |-> n, genes |-> NoGenes, host |-> h, batch |-> b] :
        n \in {<<"a", " ", "a">>, <<"a">>}, h \in Hosts, b \in BOOLEAN}

PairFirst ==
    /\ pc[WithSink] = "idle"
    /\ pc[WithoutSink] = "idle"
    /\ \E r \in PairRequests : Enter(WithSink, r, TRUE)
    /\ UNCHANGED <<data, parsed, file, file0, response_json, prediction, write_header,
                   nwrites, overlapped, log, progress, pool, responses, file1>>

\* the client answers the first call with any outcome
PairAnswer ==
    \E outcome \in ApiOutcomes :
        /\ OpenRouterCall(WithSink, outcome) \/ OpenAICall(WithSink, outcome)
        /\ responses' = Append(responses, outcome)

\* the first call is over: the file is put back, and the second call starts
PairSecond ==
    /\ pc[WithSink] = "done"
    /\ pc[WithoutSink] = "idle"
    /\ file1' = file
    /\ file' = file0
    /\ Enter(WithoutSink, req[WithSink], FALSE)
    /\ UNCHANGED <<data, parsed, file0, response_json, prediction, write_header,
                   nwrites, overlapped, log, progress, pool, responses>>

\* the client answers the second call as it answered the first
PairReplay ==
    /\ calls[WithoutSink] < Len(responses)
    /\ LET outcome == responses[calls[WithoutSink] + 1]
       IN OpenRouterCall(WithoutSink, outcome) \/ OpenAICall(WithoutSink, outcome)
    /\ UNCHANGED responses

InitPair ==
    /\ InitThreads
    /\ file \in InitFiles
    /\ file0 = file
    /\ pool = NoPool
    /\ data = NoneResponse
    /\ parsed = NotParsed

NextPair ==
    \/ PairFirst
    \/ PairAnswer
    \/ PairSecond
    \/ PairReplay
    \/ \E w \in {WithSink, WithoutSink} :
          \/ WriteBatch(w)
          \/ InvalidHost(w)
          \/ Parse(w)
          \/ Exhausted(w)
          \/ WpCheck(w)
          \/ WpOpen(w)
          \/ WpClose(w)
          \/ ReturnPrediction(w)

SpecPair == InitPair /\ [][NextPair]_vars

(***************************************************************************)
(* The Response Parser alone, on every short response.                     *)
(***************************************************************************)
ParseInputs ==
    {TextResponse(t) : t \in SeqsUpTo(TextToks, MaxTextLen)}
        \cup {NoneResponse, DictResponse(<<>>), DictResponse(JsonLoads(<<"{", "gram", "}">>))}

InitParse ==
    /\ data \in ParseInputs
    /\ parsed = NotParsed
    /\ InitThreads
    /\ file = NoFile
    /\ file0 = NoFile
    /\ pool = NoPool

Extract ==
    /\ parsed = NotParsed
    /\ parsed' = extract_and_validate_json(data)
    /\ UNCHANGED <<data, file, file0, pc, req, retry_count, response_json, prediction,
                   write_header, result, calls, allUnparsable, nwrites, overlapped,
                   log, pbar, progress, pool, responses, file1>>

NextParse == Extract

SpecParse == InitParse /\ [][NextParse]_vars

(***************************************************************************)
(* Properties.  T is the thread of the sequential driver.                  *)
(***************************************************************************)
T == MainThread

\* the number of whitespace-separated tokens of a name
TokenCount(s) ==
    Cardinality({i \in 1..Len(s) :
        s[i] \notin Whitespace /\ (i = 1 \/ s[i - 1] \in Whitespace)})

KnownHost(h) == h \in {"openrouter", "openai"}
Done == pc[T] = "done"
SyncCall == TokenCount(req[T].name) = 2 /\ ~req[T].batch

C2_InvalidNameFailsFast ==
    (pc[T] # "idle" /\ TokenCount(req[T].name) # 2)
        => (Done /\ result[T] = Null /\ calls[T] = 0)

C2_Witness ==
    /\ Done /\ TokenCount(req[T].name) = 3 /\ req[T].batch /\ req[T].host = "other"
    /\ result[T] = Null /\ calls[T] = 0

\* C3: on the OpenRouter host no exception leaves predict_binomial_name, and a
\* client call that failed is counted and retried like a parse failure, so a
\* call whose last client call failed has made all 4 attempts and returns null.
C3_TransportFailureRetried ==
    (pc[T] # "idle" /\ req[T].host = "openrouter")
        => /\ result[T].kind # "raised"
           /\ (Done /\ SyncCall /\ response_json[T].kind = "none")
                 => (calls[T] = 4 /\ result[T] = Null)

\* C7: in every record returned or written by a call, num_genes is the
\* length of the gene list when one is given and 0 otherwise.
ExpectedGenes(g) == IF g.given THEN Len(g.list) ELSE 0
NumGenesOf(rec) == DictGet(rec, "num_genes", NA)
C7_NumGenes ==
    /\ result[T].kind = "record"
          => NumGenesOf(result[T].rec) = [int |-> ExpectedGenes(req[T].genes)]
    /\ \A i \in 1..Len(log) :
          NumGenesOf(log[i]) = [int |-> ExpectedGenes(req[T].genes)]

\* C9: a batch-mode call with a two-token name appends exactly one line; its
\* custom_id is "request-" and the name with every space turned into an
\* underscore, and its messages are the system message, then the user message.
Underscored(name) == [i \in 1..Len(name) |-> IF name[i] = " " THEN "_" ELSE name[i]]
LastLine == file.lines[Len(file.lines)]
C9_BatchLine ==
    (Done /\ req[T].batch /\ TokenCount(req[T].name) = 2)
        => /\ Len(file.lines) = Len(file0.lines) + 1
           /\ SubSeq(file.lines, 1, Len(file0.lines)) = file0.lines
           /\ LastLine.kind = "batch"
           /\ LastLine.custom_id = <<"request-">> \o Underscored(req[T].name)
           /\ Len(LastLine.messages) = 2
           /\ LastLine.messages[1] = [role |-> "system", content |-> SystemTemplate]
           /\ LastLine.messages[2] = [role |-> "user", content |-> UserMessage(req[T])]

C9_Witness ==
    /\ Done /\ req[T].batch /\ req[T].name = <<"a", " ", "a">>
    /\ req[T].genes.list = <<"g1", "g2">>
    /\ file0 = EarlierFile
    /\ LastLine.kind = "batch"
    /\ LastLine.custom_id = <<"request-", "a", "_", "a">>

\* C10 as stated: every call with an unknown host ends with the configuration
\* error raised, and has not invoked the Model Client.
C10_UnknownHostRaises ==
    (Done /\ ~KnownHost(req[T].host))
        => (result[T] = Raised("ValueError") /\ calls[T] = 0)

\* C10, amended: a synchronous call with a two-token name and an unknown host
\* ends with the configuration error raised at its first attempt, and has not
\* invoked the Model Client.
C10_UnknownHostRaisesSync ==
    (pc[T] \notin {"idle", "loop"} /\ SyncCall /\ ~KnownHost(req[T].host))
        => /\ Done
           /\ result[T] = Raised("ValueError")
           /\ calls[T] = 0
           /\ retry_count[T] = 0
           /\ file = file0

C10_Witness ==
    /\ Done /\ SyncCall /\ req[T].host = "other"
    /\ result[T] = Raised("ValueError") /\ calls[T] = 0

\* the last response of the call holds a JSON object
Parseable ==
    /\ response_json[T].kind = "text"
    /\ extract_and_validate_json(response_json[T]).kind = "dict"
HeaderLines(f) == IF f.exists THEN 0 ELSE 1

C14_OpenAIExceptionPropagates ==
    (pc[T] # "idle" /\ SyncCall /\ req[T].host = "openai")
        => /\ pc[T] = "parse" => response_json[T].kind = "text"
           /\ result[T] = Null => allUnparsable[T]
           /\ result[T].kind = "raised"
                 => /\ Done
                    /\ result[T] = Raised("APIError")
                    /\ calls[T] = retry_count[T] + 1
                    /\ file = file0
                    /\ log = <<>>

C14_Witness ==
    /\ Done /\ SyncCall /\ req[T].host = "openai"
    /\ result[T] = Raised("APIError")
    /\ calls[T] = 3 /\ retry_count[T] = 2
    /\ file0 = NoFile /\ file = NoFile

\* C16: a call that fails (its name is rejected, its host is unknown, or every
\* attempt of it is used up) ends with the null result or the configuration
\* error, and leaves the output file as it was: nothing appended, and a
\* missing file not created.
FailureCase ==
    \/ TokenCount(req[T].name) # 2
    \/ SyncCall /\ ~KnownHost(req[T].host)
    \/ SyncCall /\ KnownHost(req[T].host) /\ allUnparsable[T]
C16_FailureLeavesFile ==
    /\ (Done /\ FailureCase)
          => /\ result[T] \in {Null, Raised("ValueError")}
             /\ file = file0
             /\ log = <<>>
    /\ (Done /\ result[T] \in {Null, Raised("ValueError")}) => file = file0

C16_Witness ==
    /\ Done /\ SyncCall /\ KnownHost(req[T].host) /\ allUnparsable[T]
    /\ result[T] = Null /\ retry_count[T] = 4
    /\ file0 = NoFile /\ file = NoFile

(***************************************************************************)
(* Properties of the batch run over the pool, under SpecPoolFair.          *)
(***************************************************************************)
AllTerminal == \A t \in 1..NumTasks : Terminal(t)

\* C11: every call submitted to the pool ends in a terminal outcome (a
\* record, the null result or a raised failure), whatever the outcomes of
\* the other calls are and even when the main thread has met the failure of
\* one of them.
\* Until then a call is never dropped (it is queued, running or ended), and
\* the main thread leaves the pool only when every call has ended.
NoCallDropped ==
    /\ pool.main \in {"raised", "finished"} => AllTerminal
    /\ \A t \in 1..Submitted :
          \/ Terminal(t)
          \/ \E i \in 1..Len(pool.queue) : pool.queue[i] = t
          \/ \E w \in Workers : pool.running[w] = t
C11_SiblingsRunToTheEnd == []NoCallDropped /\ <>AllTerminal

\* C11's case: with one thread, the first call failed, the main thread met the
\* failure, and the second call ran after it to a record.
C11_Witness ==
    /\ pool.main = "raised"
    /\ pool.threads = 1
    /\ pool.fut[1].kind = "raised"
    /\ pool.fut[2].kind = "record"
    /\ AllTerminal

(***************************************************************************)
(* Properties of the pair of calls, under SpecPair.                        *)
(***************************************************************************)
BothDone == pc[WithSink] = "done" /\ pc[WithoutSink] = "done"

\* C15: of two calls with the same arguments, the same file and the same
\* client responses, the one without a progress sink never asks the client
\* for more than the one with the sink did, and when both are over they have
\* made the same number of client invocations, left the same file and ended
\* with the same result; only the call with the sink has updated it.
C15_SinkDoesNotSteer ==
    /\ (pc[WithoutSink] = "loop" /\ LoopCond(retry_count[WithoutSink])
            /\ KnownHost(req[WithoutSink].host))
          => calls[WithoutSink] < Len(responses)
    /\ BothDone
          => /\ calls[WithoutSink] = calls[WithSink]
             /\ result[WithoutSink] = result[WithSink]
             /\ file = file1
             /\ progress <= 1

C15_Witness ==
    /\ BothDone
    /\ calls[WithSink] = 2 /\ calls[WithoutSink] = 2
    /\ result[WithSink].kind = "record" /\ result[WithoutSink] = result[WithSink]
    /\ file1 # file0 /\ file = file1
    /\ progress = 1

(***************************************************************************)
(* Properties of the Result Writer, under SpecWriter.                      *)
(***************************************************************************)
HeaderRows == {i \in 1..Len(file.lines) : file.lines[i].kind = "header"}
DataRows == {i \in 1..Len(file.lines) : file.lines[i].kind = "row"}
NewFile == ~file0.exists /\ log # <<>>
MetaCells == << [str |-> <<Model>>], [str |-> <<SystemTemplatePath>>], [str |-> <<"now">>] >>
ValuesOf(rec) == [i \in 1..Len(rec) |-> rec[i].val]

\* C4: when no two writes overlap and the file was missing at first, the file
\* is one header row (the columns of the first record) followed by one data
\* row per record written, in the order of the writes.
C4_OneHeaderThenRows ==
    (NewFile /\ ~overlapped)
        => /\ Len(file.lines) = Len(log) + 1
           /\ file.lines[1].kind = "header"
           /\ file.lines[1].cols = DictKeys(log[1]) \o MetaColumns
           /\ \A i \in 1..Len(log) :
                 /\ file.lines[i + 1].kind = "row"
                 /\ file.lines[i + 1].cells = ValuesOf(log[i]) \o MetaCells

C4_Witness ==
    /\ NewFile /\ ~overlapped /\ Len(log) = 3 /\ log[1] # log[2]
    /\ \A w \in Workers : pc[w] = "idle"

\* C5: on a file that was missing at first, every write leaves its data row,
\* there are at most as many header rows as writes and at least one once all
\* writes are over, and the file differs from one header row followed by data
\* rows only when writes ran at the same time.
WellFormed == Cardinality(HeaderRows) = 1 /\ file.lines[1].kind = "header"
C5_HeadersUnderRace ==
    NewFile
        => /\ Cardinality(DataRows) = Len(log)
           /\ Cardinality(HeaderRows) <= Len(log)
           /\ (\A w \in Workers : pc[w] = "idle") => Cardinality(HeaderRows) >= 1
           /\ ~WellFormed => overlapped

\* C5's case: all writes are over and the file holds two header rows, one of
\* them after a data row.
C5_Witness ==
    /\ NewFile /\ \A w \in Workers : pc[w] = "idle"
    /\ ~WellFormed
    /\ Cardinality(HeaderRows) > 1
    /\ \E i \in DataRows : \E j \in HeaderRows : i < j

\* C6: every data row is laid out in the columns of the header row, with N/A
\* where the record lacks a column.
Aligned(cols, rec) ==
    [j \in 1..(Len(cols) - 3) |-> DictGet(rec, cols[j], NA)] \o MetaCells
C6_RowsAligned ==
    (NewFile /\ ~overlapped)
        => \A i \in 1..Len(log) :
              file.lines[i + 1].cells = Aligned(file.lines[1].cols, log[i])

\* C12: when no two writes overlap, a write leaves a header row before its
\* data row if and only if it is the first write to the file, whether the
\* file was missing or present and empty at first.
C12_HeaderIffFirstWrite ==
    ~overlapped
        => \A i \in DataRows :
              (i > 1 /\ file.lines[i - 1].kind = "header")
                  <=> (\A j \in DataRows : i <= j)

(***************************************************************************)
(* Properties of the Response Parser, under SpecParse.                     *)
(***************************************************************************)
Text == data.text
ObjectSpans ==
    {sp \in (1..Len(Text)) \X (1..Len(Text)) :
        sp[1] < sp[2] /\ IsJsonObject(SubSeq(Text, sp[1], sp[2]))}
\* the objects of the text that lie in no other object of it
OuterSpans ==
    {sp \in ObjectSpans :
        ~\E o \in ObjectSpans : o # sp /\ o[1] <= sp[1] /\ sp[2] <= o[2]}
Extracted == data.kind = "text" /\ parsed # NotParsed
BraceFree(i, j) == \A k \in i..j : Text[k] \notin {"{", "}"}

\* C8 as stated: a text that holds exactly one JSON object, with any prose
\* around it, is parsed to the decoding of that object.
C8_ExtractsTheObject ==
    (Extracted /\ Cardinality(OuterSpans) = 1)
        => \A sp \in OuterSpans :
              parsed = ParsedDict(JsonLoads(SubSeq(Text, sp[1], sp[2])))

\* C8, amended: a text that holds one JSON object, with prose around it that
\* has no brace, is parsed to the decoding of that object.
C8_ExtractsTheObjectInBraceFreeProse ==
    Extracted
        => \A sp \in OuterSpans :
              (BraceFree(1, sp[1] - 1) /\ BraceFree(sp[2] + 1, Len(Text)))
                  => parsed = ParsedDict(JsonLoads(SubSeq(Text, sp[1], sp[2])))

C8_Witness ==
    /\ Extracted
    /\ Text = <<"x", "{", "gram", "}", "x">>
    /\ parsed = ParsedDict(<<[key |-> "gram_staining", val |-> [str |-> <<"positive">>]]>>)

====
